---- MODULE Spec2Model ----
(***************************************************************************)
(* A model of crestparse.py: the multi-structure xyz reader, the Conformer *)
(* record, the energy ranking, the Boltzmann weighting, the energy cutoff, *)
(* the pyramidalization mapping and the table/export part of main.         *)
(*                                                                         *)
(* Text lines are records [k, v]:                                          *)
(*   k = "n"  a line holding a decimal integer v          ("1", "0", "-3") *)
(*   k = "e"  a line holding a float literal of value v   ("-1.25")        *)
(*   k = "a"  an atom line "<label> x y z", v names its coordinates        *)
(* int() accepts "n" lines only, float() accepts "n" and "e" lines, and    *)
(* only an "a" line has the four fields Conformer.__init__ reads.          *)
(*                                                                         *)
(* Energies are integers on a grid of u Hartree, temperatures integers on  *)
(* a grid of T0 Kelvin, with u and T0 chosen so that                       *)
(* 627.5 * u / (R * T0) = ln 4: the Boltzmann factor of relative energy r  *)
(* at temperature t is then exactly 2^(-2r/t).  Quotients are rationals    *)
(* [num, den] kept in lowest terms.                                        *)
(***************************************************************************)
EXTENDS Integers, Sequences, FiniteSets, TLC

VARIABLES pc, lines, args, conformers, distribution, extractionList,
          table, files, err, hIn, hOut

vars == <<pc, lines, args, conformers, distribution, extractionList,
          table, files, err, hIn, hOut>>

\* ---------------------------------------------------------------- bounds
MaxLines == 6
MaxConf == 3
MaxEnergy == 2

\* ------------------------------------------------------------- text lines
None == "None"
NL == [k |-> "nl", v |-> 0]

Counts == {-3, 0, 1}
CountLines == {[k |-> "n", v |-> n] : n \in Counts}
EnergyLines == {[k |-> "e", v |-> e] : e \in 0..1}
AtomLines == {[k |-> "a", v |-> a] : a \in 1..2}
Alphabet == CountLines \cup EnergyLines \cup AtomLines

IntOk(line) == line.k = "n"
FloatOk(line) == line.k \in {"n", "e"}
AtomOk(line) == line.k = "a"

Min(a, b) == IF a < b THEN a ELSE b

\* python's seq[lo:hi] on a 0-based sequence, 0 <= lo
Slice(seq, lo, hi) == SubSeq(seq, lo + 1, Min(hi, Len(seq)))

\* ---------------------------------------------------------------- Conformer
AtomXYZ(line) == <<line.v, 0, 0>>

\* the exception Conformer.__init__ raises on this block, "" when none
ConformerErr(xyzFile) ==
    IF \E i \in 3..Len(xyzFile) : ~AtomOk(xyzFile[i]) THEN "IndexError" ELSE ""

Conformer(index, energy, xyzFile) ==
    [index |-> index,
     energy |-> energy,
     relativeEnergy |-> 0,
     xyzFile |-> xyzFile,
     boltzmannFactor |-> 0,
     atoms |-> [i \in 1..(IF Len(xyzFile) > 2 THEN Len(xyzFile) - 2 ELSE 0)
                  |-> AtomXYZ(xyzFile[i + 2])]]

RECURSIVE FormatFrom(_, _)
FormatFrom(xyzFile, i) ==
    IF i > Len(xyzFile) THEN <<>>
    ELSE <<xyzFile[i], NL>> \o FormatFrom(xyzFile, i + 1)

\* a rendering that joins the lines with newlines and ends without one
formatxyzJoined(c) ==
    LET out == FormatFrom(c.xyzFile, 1)
    IN  IF out = <<>> THEN out ELSE SubSeq(out, 1, Len(out) - 1)

formatxyz(c) == FormatFrom(c.xyzFile, 1)

\* ---------------------------------------------------------- readMultixyzFile
FirstIndex == 1

NextIndexStuck(index) == index

NextIndex(index) == index + 1

BlockSlice(ls, structureRow, dataLength) ==
    Slice(ls, structureRow, structureRow + dataLength)

\* the loop of readMultixyzFile from structureRow on: [err, list]
RECURSIVE ReadFrom(_, _, _, _, _)
ReadFrom(ls, dataLength, structureRow, index, acc) ==
    IF structureRow >= Len(ls) THEN [err |-> "", list |-> acc]
    ELSE IF structureRow + 1 >= Len(ls) THEN [err |-> "IndexError", list |-> <<>>]
    ELSE IF ~FloatOk(ls[structureRow + 2]) THEN [err |-> "ValueError", list |-> <<>>]
    ELSE LET xyzFile == BlockSlice(ls, structureRow, dataLength)
         IN  IF ConformerErr(xyzFile) # ""
             THEN [err |-> ConformerErr(xyzFile), list |-> <<>>]
             ELSE ReadFrom(ls, dataLength, structureRow + dataLength, NextIndex(index),
                           Append(acc, Conformer(index, ls[structureRow + 2].v, xyzFile)))

readMultixyzFile(ls) ==
    IF Len(ls) = 0 THEN [err |-> "IndexError", list |-> <<>>]
    ELSE IF ~IntOk(ls[1]) THEN [err |-> "ValueError", list |-> <<>>]
    ELSE LET dataLength == ls[1].v + 2
         IN  IF dataLength = 0 THEN [err |-> "ValueError", list |-> <<>>]
             ELSE IF dataLength < 0 THEN [err |-> "", list |-> <<>>]
             ELSE ReadFrom(ls, dataLength, 0, FirstIndex, <<>>)

\* ------------------------------------------------------------------ inputs
RECURSIVE SeqsUpTo(_, _)
SeqsUpTo(S, n) ==
    IF n = 0 THEN {<<>>}
    ELSE LET shorter == SeqsUpTo(S, n - 1)
         IN  shorter \cup {Append(s, x) : s \in {t \in shorter : Len(t) = n - 1}, x \in S}

\* an option left out is <<>>, an option given is <<value>>
NoArgs == [cutoff |-> <<>>, temperature |-> 1, extract |-> <<>>, silent |-> TRUE]

\* ------------------------------------------------- the reader and the writer
ReadFile ==
    /\ pc = "start"
    /\ LET r == readMultixyzFile(lines)
       IN  IF r.err # ""
           THEN /\ pc' = "error"
                /\ err' = r.err
                /\ UNCHANGED conformers
           ELSE /\ pc' = "read"
                /\ conformers' = r.list
                /\ UNCHANGED err
    /\ UNCHANGED <<lines, args, distribution, extractionList, table, files, hIn, hOut>>

\* writexyzFile(conformers[i-1], "conf_<i>.xyz")
WriteXyz ==
    /\ pc = "read"
    /\ \E i \in 1..Len(conformers) :
          files' = (i :> formatxyz(conformers[i])) @@ files
    /\ pc' = "written"
    /\ UNCHANGED <<lines, args, conformers, distribution, extractionList, table,
                   err, hIn, hOut>>

InitParse ==
    /\ pc = "start"
    /\ lines \in SeqsUpTo(Alphabet, MaxLines)
    /\ args = NoArgs
    /\ conformers = <<>>
    /\ distribution = <<>>
    /\ extractionList = <<>>
    /\ table = <<>>
    /\ files = <<>>
    /\ err = ""
    /\ hIn = None
    /\ hOut = <<>>

NextParse == ReadFile \/ WriteXyz

SpecParse == InitParse /\ [][NextParse]_vars

\* ------------------------------------------------------------- rationals
RECURSIVE GCD(_, _)
GCD(a, b) == IF b = 0 THEN a ELSE GCD(b, a % b)

Abs(a) == IF a < 0 THEN -a ELSE a

\* n/d in lowest terms with a positive denominator, d # 0
Rat(n, d) ==
    LET g == GCD(Abs(n), Abs(d))
        s == IF d < 0 THEN -1 ELSE 1
    IN  [num |-> (s * n) \div g, den |-> (s * d) \div g]

RatAdd(a, b) == Rat(a.num * b.den + b.num * a.den, a.den * b.den)
RatDiv(a, b) == Rat(a.num * b.den, a.den * b.num)
RatLess(a, b) == a.num * b.den < b.num * a.den

RECURSIVE RatSum(_, _)
RatSum(seq, i) == IF i > Len(seq) THEN Rat(0, 1) ELSE RatAdd(seq[i], RatSum(seq, i + 1))

RECURSIVE Pow2(_)
Pow2(k) == IF k = 0 THEN 1 ELSE 2 * Pow2(k - 1)

\* ------------------------------------------------------ energy functions
\* e * 627.5 and e / 627.5, with 627.5 = 1255/2
tokcal(e) == Rat(e * 1255, 2)
tohartree(e) == Rat(e * 2, 1255)

\* a ranking against the first conformer of the list
getMinimumHead(confList) == 1

\* position of min(confList, key=energy): the first conformer of least energy
getMinimum(confList) ==
    CHOOSE i \in 1..Len(confList) :
        /\ \A j \in 1..Len(confList) : confList[i].energy <= confList[j].energy
        /\ \A j \in 1..(i - 1) : confList[j].energy > confList[i].energy

conformerEnergyDifference(conf1, conf2) == conf1.energy - conf2.energy

calculateRelativeEnergies(confList) ==
    LET lowestConformer == confList[getMinimum(confList)]
    IN  [i \in 1..Len(confList) |->
            [confList[i] EXCEPT
                !.relativeEnergy = conformerEnergyDifference(confList[i], lowestConformer)]]

\* math.exp(-tokcal(relativeEnergy / (R * temperature))) on the grid:
\* 2^(-2 * relativeEnergy / temperature), temperature # 0 dividing 2 * relativeEnergy
boltzmannFactor(relativeEnergy, temperature) ==
    LET x == (2 * relativeEnergy) \div temperature
    IN  IF x >= 0 THEN Rat(1, Pow2(x)) ELSE Rat(Pow2(-x), 1)

\* a weighting that divides by the number of conformers
boltzmannDistributionByCount(confList, temperature) ==
    IF temperature = 0 /\ Len(confList) > 0
    THEN [err |-> "ZeroDivisionError", list |-> <<>>]
    ELSE [err |-> "",
          list |-> [i \in 1..Len(confList) |->
                      RatDiv(boltzmannFactor(confList[i].relativeEnergy, temperature),
                             Rat(Len(confList), 1))]]

\* [err, list]: R * 0 is 0.0 and a float division by it raises
boltzmannDistribution(confList, temperature) ==
    IF temperature = 0 /\ Len(confList) > 0
    THEN [err |-> "ZeroDivisionError", list |-> <<>>]
    ELSE LET factorList == [i \in 1..Len(confList) |->
                              boltzmannFactor(confList[i].relativeEnergy, temperature)]
             factorSum == RatSum(factorList, 1)
         IN  [err |-> "",
              list |-> [i \in 1..Len(confList) |-> RatDiv(factorList[i], factorSum)]]

\* the entries of seq whose flag is set, in order
RECURSIVE KeepFlagged(_, _, _)
KeepFlagged(seq, flags, i) ==
    IF i > Len(seq) THEN <<>>
    ELSE (IF flags[i] THEN <<seq[i]>> ELSE <<>>) \o KeepFlagged(seq, flags, i + 1)

\* a filter that keeps the conformers up to and including the cutoff
applyCutoffInclusive(confList, energyCutoff) ==
    KeepFlagged(confList,
                [i \in 1..Len(confList) |->
                    ~RatLess(energyCutoff, Rat(confList[i].relativeEnergy, 1))], 1)

applyCutoff(confList, energyCutoff) ==
    KeepFlagged(confList,
                [i \in 1..Len(confList) |->
                    RatLess(Rat(confList[i].relativeEnergy, 1), energyCutoff)], 1)

\* ----------------------------------------------------------------- main
\* python's seq[j] for a 0-based j that may be negative: [ok, val]
PyAt(seq, j) ==
    IF 0 <= j /\ j < Len(seq) THEN [ok |-> TRUE, val |-> seq[j + 1]]
    ELSE IF j < 0 /\ -j <= Len(seq) THEN [ok |-> TRUE, val |-> seq[Len(seq) + j + 1]]
    ELSE [ok |-> FALSE, val |-> None]

\* calculateRelativeEnergies(conformers); min() of an empty list raises
Rank ==
    /\ pc = "read"
    /\ IF Len(conformers) = 0
       THEN /\ pc' = "error"
            /\ err' = "ValueError"
            /\ UNCHANGED conformers
       ELSE /\ pc' = "ranked"
            /\ conformers' = calculateRelativeEnergies(conformers)
            /\ UNCHANGED err
    /\ UNCHANGED <<lines, args, distribution, extractionList, table, files, hIn, hOut>>

\* distribution = boltzmannDistribution(conformers, temperature)
Weight ==
    /\ pc = "ranked"
    /\ LET r == boltzmannDistribution(conformers, args.temperature)
       IN  IF r.err # ""
           THEN /\ pc' = "error"
                /\ err' = r.err
                /\ UNCHANGED distribution
           ELSE /\ pc' = "weighted"
                /\ distribution' = r.list
                /\ UNCHANGED err
    /\ UNCHANGED <<lines, args, conformers, extractionList, table, files, hIn, hOut>>

\* if cutoff: conformers = applyCutoff(conformers, tohartree(float(cutoff)))
Cutoff ==
    /\ pc = "weighted"
    /\ pc' = "filtered"
    /\ conformers' = IF args.cutoff # <<>> /\ args.cutoff[1] # 0
                     THEN applyCutoff(conformers, tohartree(args.cutoff[1]))
                     ELSE conformers
    /\ UNCHANGED <<lines, args, distribution, extractionList, table, files, err, hIn, hOut>>

\* the three tests on args.extract
Select ==
    /\ pc = "filtered"
    /\ pc' = "selected"
    /\ extractionList' =
          IF args.extract = <<>> THEN <<>>
          ELSE IF args.extract[1] # <<>> THEN args.extract[1]
          ELSE [i \in 1..Len(conformers) |-> i]
    /\ UNCHANGED <<lines, args, conformers, distribution, table, files, err, hIn, hOut>>

\* the population printed in the row of the conformer at 0-based position i
RowPopulation(dist, i, c) == dist[i + 1]

\* the table rows, one per conformer of the (filtered) list
PrintTable ==
    /\ pc = "selected"
    /\ pc' = "printed"
    /\ table' = IF args.silent THEN <<>>
                ELSE [p \in 1..Len(conformers) |->
                        [index |-> conformers[p].index,
                         energy |-> conformers[p].energy,
                         relativeEnergy |-> conformers[p].relativeEnergy,
                         kcal |-> tokcal(conformers[p].relativeEnergy),
                         population |-> RowPopulation(distribution, p - 1, conformers[p])]]
    /\ UNCHANGED <<lines, args, conformers, distribution, extractionList, files, err,
                   hIn, hOut>>

\* one pass of "for i in extractionList"; extractionList holds what is left
Export ==
    /\ pc = "printed"
    /\ extractionList # <<>>
    /\ LET i == Head(extractionList)
           c == PyAt(conformers, i - 1)
       IN  IF ~c.ok
           THEN /\ pc' = "error"
                /\ err' = "IndexError"
                /\ UNCHANGED <<files, extractionList>>
           ELSE /\ files' = (i :> formatxyz(c.val)) @@ files
                /\ extractionList' = Tail(extractionList)
                /\ UNCHANGED <<pc, err>>
    /\ UNCHANGED <<lines, args, conformers, distribution, table, hIn, hOut>>

Finish ==
    /\ pc = "printed"
    /\ extractionList = <<>>
    /\ pc' = "done"
    /\ UNCHANGED <<lines, args, conformers, distribution, extractionList, table, files,
                   err, hIn, hOut>>

\* a file of m blocks of one atom each; block k has energy es[k] and atom line k
FileOf(es) ==
    [j \in 1..(3 * Len(es)) |->
        LET k == ((j - 1) \div 3) + 1
            p == (j - 1) % 3
        IN  IF p = 0 THEN [k |-> "n", v |-> 1]
            ELSE IF p = 1 THEN [k |-> "e", v |-> es[k]]
            ELSE [k |-> "a", v |-> k]]

EnergyLists == {es \in SeqsUpTo(0..MaxEnergy, MaxConf) : Len(es) >= 1}

InputFiles == {FileOf(es) : es \in EnergyLists} \cup {<<>>, <<[k |-> "n", v |-> -3]>>}

Temperatures == {-1, 0, 1, 2}
Cutoffs == {<<>>, <<0>>, <<628>>, <<1255>>, <<1900>>}
Extracts == {<<>>, <<(<<>>)>>, <<(<<2, 1>>)>>} \cup {<<(<<i>>)>> : i \in 1..MaxConf}

Init ==
    /\ pc = "start"
    /\ lines \in InputFiles
    /\ args \in [cutoff : Cutoffs, temperature : Temperatures, extract : Extracts,
                 silent : BOOLEAN]
    /\ conformers = <<>>
    /\ distribution = <<>>
    /\ extractionList = <<>>
    /\ table = <<>>
    /\ files = <<>>
    /\ err = ""
    /\ hIn = None
    /\ hOut = <<>>

Next == ReadFile \/ Rank \/ Weight \/ Cutoff \/ Select \/ PrintTable \/ Export \/ Finish

Spec == Init /\ [][Next]_vars

\* ------------------------------------------------- applyCutoff on any list
\* a list of n conformers as the reader and a ranking leave them, the k-th with
\* relative energy rs[k]
ListOf(rs) ==
    [k \in 1..Len(rs) |->
        [Conformer(k, rs[k], <<[k |-> "n", v |-> 1], [k |-> "e", v |-> rs[k]],
                               [k |-> "a", v |-> k]>>)
            EXCEPT !.relativeEnergy = rs[k]]]

CutoffInputs ==
    [confList : {ListOf(rs) : rs \in SeqsUpTo(0..MaxEnergy, MaxConf)},
     energyCutoff : {Rat(k, 2) : k \in -1..(2 * MaxEnergy + 1)}]

InitCutoff ==
    /\ pc = "call"
    /\ hIn \in CutoffInputs
    /\ hOut = <<>>
    /\ lines = <<>>
    /\ args = NoArgs
    /\ conformers = <<>>
    /\ distribution = <<>>
    /\ extractionList = <<>>
    /\ table = <<>>
    /\ files = <<>>
    /\ err = ""

\* applyCutoff(confList, energyCutoff), then applyCutoff on what it returned
ApplyCutoffCall ==
    /\ pc = "call"
    /\ hOut' = Append(hOut, applyCutoff(IF hOut = <<>> THEN hIn.confList
                                        ELSE hOut[Len(hOut)], hIn.energyCutoff))
    /\ pc' = IF hOut = <<>> THEN "call" ELSE "returned"
    /\ UNCHANGED <<hIn, lines, args, conformers, distribution, extractionList, table,
                   files, err>>

NextCutoff == ApplyCutoffCall

SpecCutoff == InitCutoff /\ [][NextCutoff]_vars

\* ---------------------------------------------------------- pyramidalization
\* angles are integers on a grid of half a degree

\* a linear map through the two points, followed beyond them
interpExtrapolating(x, xp, fp) ==
    Rat(fp[1] * (xp[2] - xp[1]) + (fp[2] - fp[1]) * (x - xp[1]), xp[2] - xp[1])

\* np.interp(x, xp, fp) for two points xp[1] < xp[2]: the end values outside them
interp(x, xp, fp) ==
    IF x <= xp[1] THEN Rat(fp[1], 1)
    ELSE IF x >= xp[2] THEN Rat(fp[2], 1)
    ELSE Rat(fp[1] * (xp[2] - xp[1]) + (fp[2] - fp[1]) * (x - xp[1]), xp[2] - xp[1])

pyramidalization(angle213, angle314, angle412) ==
    LET totalAngle == angle213 + angle314 + angle412
    IN  interp(totalAngle, <<657, 720>>, <<1, 0>>)

\* the angles Conformer.angle can return for three rays from one atom:
\* each within [0, 180] degrees, none more than the other two together,
\* and at most 360 degrees in all
AngleGrid == {0, 120, 360} \cup {3 * k : k \in 60..80}

AngleInputs ==
    {a \in [angle213 : AngleGrid, angle314 : AngleGrid, angle412 : AngleGrid] :
        /\ a.angle213 <= a.angle314 + a.angle412
        /\ a.angle314 <= a.angle213 + a.angle412
        /\ a.angle412 <= a.angle213 + a.angle314
        /\ a.angle213 + a.angle314 + a.angle412 <= 720}

InitPyr ==
    /\ pc = "call"
    /\ hIn \in AngleInputs
    /\ hOut = <<>>
    /\ lines = <<>>
    /\ args = NoArgs
    /\ conformers = <<>>
    /\ distribution = <<>>
    /\ extractionList = <<>>
    /\ table = <<>>
    /\ files = <<>>
    /\ err = ""

Pyramidalize ==
    /\ pc = "call"
    /\ hOut' = <<pyramidalization(hIn.angle213, hIn.angle314, hIn.angle412)>>
    /\ pc' = "returned"
    /\ UNCHANGED <<hIn, lines, args, conformers, distribution, extractionList, table,
                   files, err>>

NextPyr == Pyramidalize

SpecPyr == InitPyr /\ [][NextPyr]_vars

\* ================================================================= claims

\* ------------------------------------------------- well-formed input files
\* a positive atom count N, then blocks of N + 2 lines: the count, a line that
\* parses as a float, N atom lines
WellFormed(ls) ==
    /\ Len(ls) > 0
    /\ IntOk(ls[1])
    /\ ls[1].v >= 1
    /\ Len(ls) % (ls[1].v + 2) = 0
    /\ \A j \in 1..Len(ls) :
          LET p == (j - 1) % (ls[1].v + 2)
          IN  /\ p = 0 => ls[j] = ls[1]
              /\ p = 1 => FloatOk(ls[j])
              /\ p >= 2 => AtomOk(ls[j])

BlockLen(ls) == ls[1].v + 2

\* the i-th block of the file, and its text: every line followed by a newline
OrigBlock(ls, i) == [j \in 1..BlockLen(ls) |-> ls[(i - 1) * BlockLen(ls) + j]]

BlockText(ls, i) ==
    [j \in 1..(2 * BlockLen(ls)) |->
        IF j % 2 = 1 THEN ls[(i - 1) * BlockLen(ls) + (j + 1) \div 2] ELSE NL]

\* the p-th smallest member of a set of integers
Nth(S, p) == CHOOSE i \in S : Cardinality({j \in S : j <= i}) = p

\* C1 as claimed: after calculateRelativeEnergies exactly one conformer has
\* relativeEnergy = 0, and it is the first conformer of minimum energy, also
\* when several conformers share the minimum.
C1_ExactlyOneZero ==
    pc = "ranked" =>
        LET zero == {i \in 1..Len(conformers) : conformers[i].relativeEnergy = 0}
        IN  /\ Cardinality(zero) = 1
            /\ \A i \in zero :
                  /\ \A j \in 1..Len(conformers) :
                        conformers[i].energy <= conformers[j].energy
                  /\ \A j \in 1..(i - 1) : conformers[j].energy # conformers[i].energy

\* C1 amended: after calculateRelativeEnergies the conformers with
\* relativeEnergy = 0 are exactly those of minimum energy (at least one, all of
\* them when several tie), every relativeEnergy is energy minus that minimum,
\* and the first conformer with relativeEnergy = 0 is the first of minimum energy.
C1_ZeroExactlyAtMinimum ==
    pc = "ranked" =>
        LET n == Len(conformers)
            least == CHOOSE e \in {conformers[i].energy : i \in 1..n} :
                        \A j \in 1..n : e <= conformers[j].energy
            zero == {i \in 1..n : conformers[i].relativeEnergy = 0}
        IN  /\ zero # {}
            /\ zero = {i \in 1..n : conformers[i].energy = least}
            /\ \A i \in 1..n :
                  conformers[i].relativeEnergy = conformers[i].energy - least
            /\ Cardinality({i \in 1..n : conformers[i].energy = least}) = 1
                  => Cardinality(zero) = 1

C1_WitnessTiedMinimum ==
    /\ pc = "ranked"
    /\ \E i, j \in 1..Len(conformers) :
          /\ i < j
          /\ conformers[i].relativeEnergy = 0
          /\ conformers[j].relativeEnergy = 0
    /\ \E i \in 1..Len(conformers) : conformers[i].relativeEnergy > 0

\* C2 as claimed: readMultixyzFile returns a conformer list only when the
\* declared atom count N is a positive integer and the number of lines is a
\* multiple of N + 2, and then every conformer has N atoms and N + 2 raw lines.
C2_MalformedInputRaises ==
    pc = "read" =>
        /\ Len(lines) > 0
        /\ IntOk(lines[1])
        /\ lines[1].v >= 1
        /\ Len(lines) % (lines[1].v + 2) = 0
        /\ \A i \in 1..Len(conformers) :
              /\ Len(conformers[i].atoms) = lines[1].v
              /\ Len(conformers[i].xyzFile) = lines[1].v + 2

\* C3: at a temperature > 0, for a non-empty ranked list, boltzmannDistribution
\* returns one entry per conformer, every entry non-negative, the entries
\* summing to 1.
C3_DistributionSumsToOne ==
    (pc = "weighted" /\ args.temperature > 0) =>
        /\ Len(distribution) = Len(conformers)
        /\ \A i \in 1..Len(distribution) :
              distribution[i].num >= 0 /\ distribution[i].den > 0
        /\ RatSum(distribution, 1) = [num |-> 1, den |-> 1]

C3_WitnessUnequalWeights ==
    /\ pc = "weighted"
    /\ args.temperature > 0
    /\ Len(distribution) >= 2
    /\ \E i, j \in 1..Len(distribution) : distribution[i] # distribution[j]

\* C4: applyCutoff returns exactly the conformers whose relativeEnergy is
\* strictly below the cutoff, in their original order and unchanged, leaves its
\* argument as it was, and applied to its own result returns that result.
C4_Selected ==
    Len(hOut) >= 1 =>
        LET confList == hIn.confList
            kept == {i \in 1..Len(confList) :
                        confList[i].relativeEnergy * hIn.energyCutoff.den
                            < hIn.energyCutoff.num}
        IN  /\ Len(hOut[1]) = Cardinality(kept)
            /\ \A p \in 1..Len(hOut[1]) : hOut[1][p] = confList[Nth(kept, p)]
            /\ Len(hOut) >= 2 => hOut[2] = hOut[1]

C4_CutoffStrictOrderedIdempotent == [](C4_Selected) /\ [][hIn' = hIn]_vars

C4_WitnessBoundaryDropped ==
    /\ pc = "returned"
    /\ Len(hOut) = 2
    /\ Len(hOut[1]) >= 1
    /\ Len(hOut[1]) < Len(hIn.confList)
    /\ \E i \in 1..Len(hIn.confList) :
          /\ hIn.energyCutoff = [num |-> hIn.confList[i].relativeEnergy, den |-> 1]
          /\ \A p \in 1..Len(hOut[1]) : hOut[1][p] # hIn.confList[i]
    /\ \E i \in 1..(Len(hIn.confList) - 1) :
          /\ hIn.confList[i].relativeEnergy * hIn.energyCutoff.den >= hIn.energyCutoff.num
          /\ hIn.confList[i + 1].relativeEnergy * hIn.energyCutoff.den
                < hIn.energyCutoff.num

\* C5: for a well-formed file, the text written for the i-th conformer is the
\* i-th block of the file: its N + 2 lines in order, each followed by a newline.
C5_RoundTrip ==
    (pc = "written" /\ WellFormed(lines)) =>
        \A i \in DOMAIN files : files[i] = BlockText(lines, i)

C5_WitnessSecondBlock ==
    /\ pc = "written"
    /\ WellFormed(lines)
    /\ \E i \in DOMAIN files :
          /\ i >= 2
          /\ BlockText(lines, i) # BlockText(lines, 1)

\* C6: a well-formed file of M blocks of N + 2 lines is read without error into
\* M = Len(lines) / (N + 2) conformers in file order, the k-th with index k.
C6_IndicesContiguous ==
    (pc # "start" /\ WellFormed(lines)) =>
        /\ pc # "error"
        /\ Len(conformers) * BlockLen(lines) = Len(lines)
        /\ \A k \in 1..Len(conformers) :
              /\ conformers[k].index = k
              /\ conformers[k].xyzFile = OrigBlock(lines, k)
              /\ conformers[k].energy = OrigBlock(lines, k)[2].v

C6_WitnessTwoBlocks ==
    /\ pc = "read"
    /\ WellFormed(lines)
    /\ Len(conformers) >= 2

C8_NonPositiveTemperatureFails ==
    pc = "weighted" => args.temperature > 0

\* C9 as claimed: in a run of main (at a temperature > 0), every exported file
\* conf_<i>.xyz holds the block of the conformer whose index is i, also after
\* an energy cutoff.
C9_ExportedFileIsConformerI ==
    args.temperature > 0 =>
        \A i \in DOMAIN files :
            \E k \in 1..Len(readMultixyzFile(lines).list) :
                /\ readMultixyzFile(lines).list[k].index = i
                /\ files[i] = formatxyz(readMultixyzFile(lines).list[k])

\* C10 as claimed: in a run of main (at a temperature > 0), the population
\* printed in a conformer's table row is the distribution entry computed for
\* that conformer, also after an energy cutoff that removed conformers before it.
C10_RowPopulationIsOwnEntry ==
    args.temperature > 0 =>
        \A p \in 1..Len(table) : table[p].population = distribution[table[p].index]

====
